---- MODULE Spec2Model ----
(***************************************************************************)
(* State-machine model of the wave-equation Renderer of src/src/lib.rs:    *)
(* the grid sizer, the tabulation generator, the characteristic update,    *)
(* the two boundary evaluators, the single step (Iterator::next) and       *)
(* advance, reset and the setters.                                         *)
(*                                                                         *)
(* f64 values are modelled as exact rationals <<num, den>> in lowest terms *)
(* with den > 0, so equal values are equal tuples.  Rounding, infinities   *)
(* and NaN are not represented: every a and l the model draws is nonzero.  *)
(***************************************************************************)
EXTENDS Integers, Sequences, FiniteSets, TLC

\* The Renderer's fields.
VARIABLES left, right, floor, floor_buffer, a, l, rem_t, cur_t

\* pc, todo: where the Renderer is (idle, or inside advance's nth with todo calls
\* of next left).  call: the last public call and its arguments.  cnt: steps made
\* by the running advance.  steps, calls: steps and configuring calls made so far.
\* age, gen: steps since the current array was generated, and the clock value and
\* the array length found when it was generated.
VARIABLES pc, todo, call, cnt, steps, calls, age, gen

\* the arguments and results of calc_tabulation_size applied on its own
VARIABLE sz

rvars == <<left, right, floor, floor_buffer, a, l, rem_t, cur_t,
           pc, todo, call, cnt, steps, calls, age, gen>>

vars == <<rvars, sz>>

----------------------------------------------------------------------------
(* Bounds of the model. *)

\* total number of single steps (Iterator::next) in one behaviour
MaxSteps == 3
\* number of configuring calls (reset, setters) after the constructor
MaxCalls == 1
\* largest numerator of the arguments calc_tabulation_size is applied to
MaxNum == 4

----------------------------------------------------------------------------
(* f64 arithmetic, as exact rational arithmetic. *)

Abs(x) == IF x < 0 THEN -x ELSE x

RECURSIVE GCD(_, _)
GCD(x, y) == IF y = 0 THEN x ELSE GCD(y, x % y)

\* the rational n/d (d # 0) in lowest terms with a positive denominator
Rat(n, d) ==
    LET g == GCD(Abs(n), Abs(d))
        s == IF d < 0 THEN -1 ELSE 1
    IN  <<(s * n) \div g, (s * d) \div g>>

R(k) == <<k, 1>>

RAdd(x, y) ==
    LET g == GCD(x[2], y[2])
    IN  Rat(x[1] * (y[2] \div g) + y[1] * (x[2] \div g), (x[2] \div g) * y[2])

RNeg(x) == <<-x[1], x[2]>>

RSub(x, y) == RAdd(x, RNeg(y))

RMul(x, y) ==
    LET g1 == GCD(Abs(x[1]), y[2])
        g2 == GCD(Abs(y[1]), x[2])
    IN  Rat((x[1] \div g1) * (y[1] \div g2), (x[2] \div g2) * (y[2] \div g1))

\* x / y, y # 0
RDiv(x, y) == RMul(x, Rat(y[2], y[1]))

RLt(x, y) == x[1] * y[2] < y[1] * x[2]

RLeq(x, y) == x[1] * y[2] <= y[1] * x[2]

\* f64::floor
RFloor(x) == x[1] \div x[2]

\* f64::ceil
RCeil(x) == -((-x[1]) \div x[2])

\* rounding toward zero
RTrunc(x) == IF x[1] >= 0 THEN x[1] \div x[2] ELSE -((-x[1]) \div x[2])

\* `as usize` of an f64: toward zero, negative values saturate at 0
AsUsize(x) == IF x[1] < 0 THEN 0 ELSE RTrunc(x)

\* the f64 remainder x % y: the sign of x, magnitude below |y|
FMod(x, y) == RSub(x, RMul(R(RTrunc(RDiv(x, y))), y))

Max(x, y) == IF x >= y THEN x ELSE y

----------------------------------------------------------------------------
(* Constants and the grid sizer. *)

MIN_FRAMERATE == 60

MIN_TABULATION_SIZE == 257

\* calc_tabulation_size rounding down where the code rounds up
calc_tabulation_size_floor(pa, pl) ==
    Max(MIN_TABULATION_SIZE,
        AsUsize(R(RFloor(RAdd(RMul(RDiv(RMul(R(2), pl), pa), R(MIN_FRAMERATE)), R(1))))))

calc_tabulation_size(pa, pl) ==
    Max(MIN_TABULATION_SIZE,
        AsUsize(R(RCeil(RAdd(RMul(RDiv(RMul(R(2), pl), pa), R(MIN_FRAMERATE)), R(1))))))

----------------------------------------------------------------------------
(* The callables handed in from outside: a few total functions R -> R. *)

Funcs == {"zero", "one", "id"}

\* RealFunction::call
Call(f, x) ==
    CASE f = "zero" -> R(0)
      [] f = "one"  -> R(1)
      [] f = "id"   -> x

Types == {"Ut", "Ux"}

UDiff == [ty : Types, func : Funcs]

UDiffPairPoint(ut, ux) == [u_t |-> ut, u_x |-> ux]

\* the default point (0, 0) of Cell::default()
DefaultPoint == UDiffPairPoint(R(0), R(0))

----------------------------------------------------------------------------
(* The tabulation generator. *)

generate_floor(bottom_u_x, bottom_u_t, pa, pl) ==
    LET n == calc_tabulation_size(pa, pl)
    IN  [i \in 1..n |->
            LET x == RMul(Rat(i - 1, n - 1), pl)
            IN  UDiffPairPoint(Call(bottom_u_t, x), Call(bottom_u_x, x))]

\* Vec::resize(new_len, value): truncate, or extend with copies of value
Resize(v, new_len, value) ==
    [i \in 1..new_len |-> IF i <= Len(v) THEN v[i] ELSE value]

----------------------------------------------------------------------------
(* Step size, interior update and boundary evaluators. *)

step_dt == RDiv(RMul(R(2), l), RMul(a, R(Len(floor) - 1)))

\* calc_point without the halving
calc_point_no_half(lp, rp) ==
    UDiffPairPoint(
        RAdd(RAdd(RSub(lp.u_t, RMul(lp.u_x, a)), rp.u_t), RMul(rp.u_x, a)),
        RAdd(RAdd(RSub(lp.u_x, RDiv(lp.u_t, a)), rp.u_x), RDiv(rp.u_t, a)))

\* calc_point with the signs of the two u_x terms of u_t exchanged
calc_point_sign_slip(lp, rp) ==
    UDiffPairPoint(
        RDiv(RSub(RAdd(RAdd(lp.u_t, RMul(lp.u_x, a)), rp.u_t), RMul(rp.u_x, a)), R(2)),
        RDiv(RAdd(RAdd(RSub(lp.u_x, RDiv(lp.u_t, a)), rp.u_x), RDiv(rp.u_t, a)), R(2)))

calc_point(lp, rp) ==
    UDiffPairPoint(
        RDiv(RAdd(RAdd(RSub(lp.u_t, RMul(lp.u_x, a)), rp.u_t), RMul(rp.u_x, a)), R(2)),
        RDiv(RAdd(RAdd(RSub(lp.u_x, RDiv(lp.u_t, a)), rp.u_x), RDiv(rp.u_t, a)), R(2)))

\* left_calc_point calling the boundary function with the clock value before the step
left_calc_point_old_time(t, point) ==
    LET u_diff == Call(left.func, RSub(t, step_dt))
    IN  IF left.ty = "Ut"
        THEN UDiffPairPoint(u_diff, RSub(point.u_x, RDiv(RSub(u_diff, point.u_t), a)))
        ELSE UDiffPairPoint(RSub(point.u_t, RMul(RSub(u_diff, point.u_x), a)), u_diff)

left_calc_point(t, point) ==
    LET u_diff == Call(left.func, t)
    IN  IF left.ty = "Ut"
        THEN UDiffPairPoint(u_diff, RSub(point.u_x, RDiv(RSub(u_diff, point.u_t), a)))
        ELSE UDiffPairPoint(RSub(point.u_t, RMul(RSub(u_diff, point.u_x), a)), u_diff)

right_calc_point(t, point) ==
    LET u_diff == Call(right.func, t)
    IN  IF right.ty = "Ut"
        THEN UDiffPairPoint(u_diff, RAdd(point.u_x, RDiv(RSub(u_diff, point.u_t), a)))
        ELSE UDiffPairPoint(RAdd(point.u_t, RMul(RSub(u_diff, point.u_x), a)), u_diff)

----------------------------------------------------------------------------
(* Inputs of the public operations. *)

\* <<a, l>> handed to new and reset: 257 points, 361 points, and invalid ones
Params == {<<R(1), R(1)>>, <<R(1), R(3)>>, <<R(-1), R(1)>>, <<R(1), R(-1)>>}

\* <<bottom_u_x, bottom_u_t>> handed to reset
ResetBottoms == {<<"id", "one">>}

\* <<a, l>> handed to new: valid and invalid
NewParams == {<<R(1), R(1)>>, <<R(-1), R(1)>>}

\* values handed to the boundary setters
LeftTyVals == {"Ux"}
RightTyVals == {"Ut"}
LeftFuncVals == {"one"}
RightFuncVals == {"zero"}

\* values assigned to the public fields a and l
FieldAVals == {R(2)}
FieldLVals == {R(3)}

\* elapsed durations handed to advance
DtVals == {R(0), Rat(1, 100)}

\* the last public call and its arguments (fields a call does not take are 0 or "-")
Called(op, bx, bt, pa, pl, dt) ==
    [op |-> op, bottom_u_x |-> bx, bottom_u_t |-> bt, a |-> pa, l |-> pl, dt |-> dt]

NoSize == [pc |-> "off", a1 |-> R(1), l1 |-> R(1), a2 |-> R(1), l2 |-> R(1), n1 |-> 0, n2 |-> 0]

----------------------------------------------------------------------------
(* Renderer::new *)

new(lft, rgt, bottom_u_x, bottom_u_t, pa, pl) ==
    LET fl == generate_floor(bottom_u_x, bottom_u_t, pa, pl)
    IN  /\ floor = fl
        /\ floor_buffer = Resize(<<>>, Len(fl), DefaultPoint)
        /\ rem_t = R(0)
        /\ cur_t = R(0)
        /\ left = lft
        /\ right = rgt
        /\ a = pa
        /\ l = pl
        /\ pc = "idle"
        /\ todo = 0
        /\ call = Called("new", bottom_u_x, bottom_u_t, pa, pl, R(0))
        /\ cnt = 0
        /\ steps = 0
        /\ calls = 0
        /\ age = 0
        /\ gen = [t |-> R(0), n0 |-> 0]

\* construction with time-dependent boundary functions
Init ==
    /\ \E p \in NewParams :
          new([ty |-> "Ut", func |-> "id"], [ty |-> "Ux", func |-> "id"], "zero", "id", p[1], p[2])
    /\ sz = NoSize

----------------------------------------------------------------------------
(* Renderer::reset *)

\* reset that leaves the scratch array as long as it was
reset_no_resize(bottom_u_x, bottom_u_t, pa, pl) ==
    LET fl == generate_floor(bottom_u_x, bottom_u_t, pa, pl)
    IN  /\ pc = "idle"
        /\ calls < MaxCalls
        /\ a' = pa
        /\ l' = pl
        /\ floor' = fl
        /\ call' = Called("reset", bottom_u_x, bottom_u_t, pa, pl, R(0))
        /\ calls' = calls + 1
        /\ age' = 0
        /\ gen' = [t |-> cur_t, n0 |-> Len(floor)]
        /\ UNCHANGED <<floor_buffer, left, right, rem_t, cur_t, pc, todo, cnt, steps, sz>>

\* reset that also restarts the clock, as new does
reset_restarts_clock(bottom_u_x, bottom_u_t, pa, pl) ==
    LET fl == generate_floor(bottom_u_x, bottom_u_t, pa, pl)
    IN  /\ pc = "idle"
        /\ calls < MaxCalls
        /\ a' = pa
        /\ l' = pl
        /\ floor' = fl
        /\ floor_buffer' = Resize(floor_buffer, Len(fl), DefaultPoint)
        /\ rem_t' = R(0)
        /\ cur_t' = R(0)
        /\ call' = Called("reset", bottom_u_x, bottom_u_t, pa, pl, R(0))
        /\ calls' = calls + 1
        /\ age' = 0
        /\ gen' = [t |-> cur_t, n0 |-> Len(floor)]
        /\ UNCHANGED <<left, right, pc, todo, cnt, steps, sz>>

reset(bottom_u_x, bottom_u_t, pa, pl) ==
    LET fl == generate_floor(bottom_u_x, bottom_u_t, pa, pl)
    IN  /\ pc = "idle"
        /\ calls < MaxCalls
        /\ a' = pa
        /\ l' = pl
        /\ floor' = fl
        /\ floor_buffer' = Resize(floor_buffer, Len(fl), DefaultPoint)
        /\ call' = Called("reset", bottom_u_x, bottom_u_t, pa, pl, R(0))
        /\ calls' = calls + 1
        /\ age' = 0
        /\ gen' = [t |-> cur_t, n0 |-> Len(floor)]
        /\ UNCHANGED <<left, right, rem_t, cur_t, pc, todo, cnt, steps, sz>>

----------------------------------------------------------------------------
(* Renderer::advance and the steps it runs. *)

\* Iterator::nth(k) consumes k elements and returns the next one: k + 1 calls of next
nth_calls(k) == k + 1

advance(dt) ==
    LET sd == step_dt
        k  == AsUsize(RDiv(dt, sd))
    IN  /\ pc = "idle"
        /\ steps + nth_calls(k) <= MaxSteps
        /\ rem_t' = FMod(dt, sd)
        /\ pc' = "nth"
        /\ todo' = nth_calls(k)
        /\ cnt' = 0
        /\ call' = Called("advance", "-", "-", R(0), R(0), dt)
        /\ UNCHANGED <<left, right, floor, floor_buffer, a, l, cur_t, steps, calls, age, gen, sz>>

\* a step whose interior update takes its left neighbour from the scratch array
\* being written instead of the current array
next_reads_scratch ==
    LET t  == RAdd(cur_t, step_dt)
        n  == Len(floor)
        b0 == [floor_buffer EXCEPT ![1] = left_calc_point(t, floor[2])]
        b1 == [i \in 1..n |->
                  IF 2 <= i /\ i <= n - 1
                  THEN calc_point(b0[i - 1], floor[i + 1])
                  ELSE b0[i]]
        b2 == [b1 EXCEPT ![n] = right_calc_point(t, floor[n - 1])]
    IN  /\ pc = "nth"
        /\ todo > 0
        /\ n = Len(floor_buffer)
        /\ cur_t' = t
        /\ floor' = b2
        /\ floor_buffer' = floor
        /\ todo' = todo - 1
        /\ pc' = IF todo = 1 THEN "idle" ELSE "nth"
        /\ cnt' = cnt + 1
        /\ steps' = steps + 1
        /\ age' = age + 1
        /\ UNCHANGED <<left, right, a, l, rem_t, call, calls, gen, sz>>

\* Iterator::next for Renderer: one step, run while nth still has calls to make
next ==
    LET t  == RAdd(cur_t, step_dt)
        n  == Len(floor)
        b0 == [floor_buffer EXCEPT ![1] = left_calc_point(t, floor[2])]
        b1 == [i \in 1..n |->
                  IF 2 <= i /\ i <= n - 1
                  THEN calc_point(floor[i - 1], floor[i + 1])
                  ELSE b0[i]]
        b2 == [b1 EXCEPT ![n] = right_calc_point(t, floor[n - 1])]
    IN  /\ pc = "nth"
        /\ todo > 0
        /\ n = Len(floor_buffer)
        /\ cur_t' = t
        /\ floor' = b2
        /\ floor_buffer' = floor
        /\ todo' = todo - 1
        /\ pc' = IF todo = 1 THEN "idle" ELSE "nth"
        /\ cnt' = cnt + 1
        /\ steps' = steps + 1
        /\ age' = age + 1
        /\ UNCHANGED <<left, right, a, l, rem_t, call, calls, gen, sz>>

----------------------------------------------------------------------------
(* The boundary setters and the public fields a and l. *)

Setter(op) ==
    /\ pc = "idle"
    /\ calls < MaxCalls
    /\ call' = Called(op, "-", "-", R(0), R(0), R(0))
    /\ calls' = calls + 1
    /\ UNCHANGED <<floor, floor_buffer, rem_t, cur_t, pc, todo, cnt, steps, age, gen, sz>>

set_left_ty(ty) ==
    /\ Setter("set_left_ty")
    /\ left' = [left EXCEPT !.ty = ty]
    /\ UNCHANGED <<right, a, l>>

set_right_ty(ty) ==
    /\ Setter("set_right_ty")
    /\ right' = [right EXCEPT !.ty = ty]
    /\ UNCHANGED <<left, a, l>>

set_left_func(func) ==
    /\ Setter("set_left_func")
    /\ left' = [left EXCEPT !.func = func]
    /\ UNCHANGED <<right, a, l>>

set_right_func(func) ==
    /\ Setter("set_right_func")
    /\ right' = [right EXCEPT !.func = func]
    /\ UNCHANGED <<left, a, l>>

\* the setter generated for `pub a`
set_a(pa) ==
    /\ Setter("set_a")
    /\ a' = pa
    /\ UNCHANGED <<left, right, l>>

\* the setter generated for `pub l`
set_l(pl) ==
    /\ Setter("set_l")
    /\ l' = pl
    /\ UNCHANGED <<left, right, a>>

----------------------------------------------------------------------------

Next ==
    \/ \E b \in ResetBottoms, p \in Params : reset(b[1], b[2], p[1], p[2])
    \/ \E dt \in DtVals : advance(dt)
    \/ next
    \/ \E ty \in LeftTyVals : set_left_ty(ty)
    \/ \E ty \in RightTyVals : set_right_ty(ty)
    \/ \E func \in LeftFuncVals : set_left_func(func)
    \/ \E func \in RightFuncVals : set_right_func(func)
    \/ \E pa \in FieldAVals : set_a(pa)
    \/ \E pl \in FieldLVals : set_l(pl)

Spec == Init /\ [][Next]_vars

----------------------------------------------------------------------------
(* Stepping alone, from every construction of the boundary conditions. *)

\* <<a, l>> handed to new when only stepping is explored
StepParams == {<<R(2), R(1)>>}

InitStep ==
    /\ \E lft \in UDiff, rgt \in UDiff, bx \in Funcs, bt \in Funcs, p \in StepParams :
          new(lft, rgt, bx, bt, p[1], p[2])
    /\ sz = NoSize

NextStep ==
    \/ \E dt \in DtVals : advance(dt)
    \/ next

SpecStep == InitStep /\ [][NextStep]_vars

----------------------------------------------------------------------------
(* calc_tabulation_size on its own, applied to two pairs of arguments. *)

SizeVals == {Rat(n, d) : n \in 1..MaxNum, d \in {3, 20}}

\* no Renderer has been constructed
NoRenderer ==
    /\ floor = <<>>
    /\ floor_buffer = <<>>
    /\ rem_t = R(0)
    /\ cur_t = R(0)
    /\ left = [ty |-> "Ut", func |-> "zero"]
    /\ right = [ty |-> "Ut", func |-> "zero"]
    /\ a = R(1)
    /\ l = R(1)
    /\ pc = "none"
    /\ todo = 0
    /\ call = Called("-", "-", "-", R(0), R(0), R(0))
    /\ cnt = 0
    /\ steps = 0
    /\ calls = 0
    /\ age = 0
    /\ gen = [t |-> R(0), n0 |-> 0]

InitSize ==
    /\ NoRenderer
    /\ \E a1 \in SizeVals, l1 \in SizeVals, a2 \in SizeVals, l2 \in SizeVals :
          sz = [pc |-> "in", a1 |-> a1, l1 |-> l1, a2 |-> a2, l2 |-> l2, n1 |-> 0, n2 |-> 0]

size_apply ==
    /\ sz.pc = "in"
    /\ sz' = [sz EXCEPT !.pc = "out",
                        !.n1 = calc_tabulation_size(sz.a1, sz.l1),
                        !.n2 = calc_tabulation_size(sz.a2, sz.l2)]
    /\ UNCHANGED rvars

NextSize == size_apply

SpecSize == InitSize /\ [][NextSize]_vars

----------------------------------------------------------------------------
(* The claims. *)

\* the right-moving characteristic quantity u_t - a * u_x of a point
Riemann(p) == RSub(p.u_t, RMul(a, p.u_x))

\* a step has just been made: the last call is an advance that has stepped
Stepped == call.op = "advance" /\ cnt >= 1

\* the two end points carry the derivative their end prescribes, evaluated at t
BoundaryAt(t) ==
    /\ left.ty = "Ut" => floor[1].u_t = Call(left.func, t)
    /\ left.ty = "Ux" => floor[1].u_x = Call(left.func, t)
    /\ right.ty = "Ut" => floor[Len(floor)].u_t = Call(right.func, t)
    /\ right.ty = "Ux" => floor[Len(floor)].u_x = Call(right.func, t)

\* C1: when advance(dt) has returned, it has made exactly floor(dt / step_dt)
\* steps (none when dt < step_dt, three when dt = 3.4 * step_dt).
C1_AdvanceStepCount ==
    (pc = "idle" /\ call.op = "advance") => cnt = RFloor(RDiv(call.dt, step_dt))

\* C2: in every reachable state the scratch array is as long as the current
\* array, and every step keeps the length of the current array and moves cur_t
\* forward by exactly 2 * l / (a * (n - 1)).
C2_StepKeepsLengthAndClock ==
    /\ [](Len(floor_buffer) = Len(floor))
    /\ [][steps' = steps + 1 =>
            /\ Len(floor') = Len(floor)
            /\ RMul(RSub(cur_t', cur_t), RMul(a, R(Len(floor) - 1))) = RMul(R(2), l)]_vars

\* a step made after a reset that changed the length of the arrays
C2_Witness == Stepped /\ age >= 1 /\ gen.n0 # 0 /\ gen.n0 # Len(floor)

\* C3: after a step, the point at each end has u_t (type Ut) or u_x (type Ux)
\* equal to that end's function evaluated at the clock value after the step.
C3_BoundaryExact == Stepped => BoundaryAt(cur_t)

\* a step made with time-dependent functions of both types at the ends
C3_Witness ==
    /\ Stepped
    /\ left = [ty |-> "Ut", func |-> "id"]
    /\ right = [ty |-> "Ux", func |-> "id"]

\* the array is constant and each end prescribes the constant it already has
Steady ==
    \E ct \in {R(0), R(1)}, cx \in {R(0), R(1)} :
        /\ \A i \in 1..Len(floor) : floor[i] = UDiffPairPoint(ct, cx)
        /\ left.func \in {"zero", "one"}
        /\ right.func \in {"zero", "one"}
        /\ Call(left.func, cur_t) = IF left.ty = "Ut" THEN ct ELSE cx
        /\ Call(right.func, cur_t) = IF right.ty = "Ut" THEN ct ELSE cx

\* C4: a step made from a constant array whose ends prescribe, by constant
\* functions, the values the array already has leaves the array unchanged, for
\* every combination of boundary types; so the array stays the initial one.
C4_SteadyState == [][(steps' = steps + 1 /\ Steady) => floor' = floor]_vars

\* several steps made from a steady state with different types and values
C4_Witness ==
    /\ Stepped
    /\ steps >= 2
    /\ Steady
    /\ left.ty # right.ty
    /\ floor[1].u_t # floor[1].u_x

\* C5 as stated: the quantity u_t - a * u_x of the point two indices to the
\* right after a step equals that of the point before the step.
C5_CarriedTwoIndices ==
    [][steps' = steps + 1 =>
          \A i \in 1..(Len(floor) - 3) :
              RSub(floor'[i + 2].u_t, RMul(a, floor'[i + 2].u_x)) = Riemann(floor[i])]_vars

\* C5 amended: the quantity u_t - a * u_x of an interior point after a step
\* equals that of its left neighbour before the step (one index per step).
C5_CarriedOneIndex ==
    [][steps' = steps + 1 =>
          \A i \in 1..(Len(floor) - 2) :
              RSub(floor'[i + 1].u_t, RMul(a, floor'[i + 1].u_x)) = Riemann(floor[i])]_vars

\* steps made on an array whose characteristic quantity varies along the string
C5_Witness ==
    /\ Stepped
    /\ steps >= 2
    /\ Riemann(floor[3]) # Riemann(floor[4])
    /\ Riemann(floor[4]) # Riemann(floor[5])

\* C6: a new or reset called with a <= 0 or l <= 0 fails before a grid is
\* generated: the Renderer never holds the grid sampled for such arguments.
C6_InvalidParamsRejected ==
    (call.op \in {"new", "reset"} /\ (RLeq(call.a, R(0)) \/ RLeq(call.l, R(0)))) =>
        ~(/\ a = call.a
          /\ l = call.l
          /\ floor = generate_floor(call.bottom_u_x, call.bottom_u_t, call.a, call.l))

\* C7: for a > 0 and l > 0 the size is the least integer that is at least 257
\* and at least 2 * l / a * 60 + 1, and it does not decrease as l / a grows.
C7_GridSize ==
    sz.pc = "out" =>
        LET x == RAdd(RMul(R(120), RDiv(sz.l1, sz.a1)), R(1))
        IN  /\ sz.n1 >= 257
            /\ RLeq(x, R(sz.n1))
            /\ sz.n1 > 257 => RLt(R(sz.n1 - 1), x)
            /\ RLeq(RDiv(sz.l1, sz.a1), RDiv(sz.l2, sz.a2)) => sz.n1 <= sz.n2

\* sizes above the minimum computed for two different ratios, one not a whole number
C7_Witness ==
    /\ sz.pc = "out"
    /\ sz.n1 > 257
    /\ sz.n1 < sz.n2
    /\ RLt(RAdd(RMul(R(120), RDiv(sz.l1, sz.a1)), R(1)), R(sz.n1))

\* C8: in every reachable state the current array has calc_tabulation_size(a, l)
\* points for the Renderer's current a and l.
C8_LengthMatchesParams == Len(floor) = calc_tabulation_size(a, l)

\* C9: after a step every entry of the current array is the value computed from
\* the array that was current before the step (now the scratch array): the left
\* formula on old[1], the interior update of old[i-1] and old[i+1], the right
\* formula on old[n-2] (indices from 0).
C9_ReadsOldArrayOnly ==
    Stepped =>
        LET n == Len(floor)
        IN  /\ Len(floor_buffer) = n
            /\ floor[1] = left_calc_point(cur_t, floor_buffer[2])
            /\ \A i \in 2..(n - 1) :
                  floor[i] = calc_point(floor_buffer[i - 1], floor_buffer[i + 1])
            /\ floor[n] = right_calc_point(cur_t, floor_buffer[n - 1])

\* the second step of an advance, made on an array that is not constant
C9_Witness ==
    /\ Stepped
    /\ cnt >= 2
    /\ floor_buffer[3] # floor_buffer[4]
    /\ floor[3] # floor_buffer[3]

\* C10: reset replaces a, l, the current array and the length of the scratch
\* array and nothing else, so the first step after it runs at the clock value
\* found by the reset plus the new step_dt.
C10_ResetKeepsClock ==
    /\ [][(call'.op = "reset" /\ calls' = calls + 1) =>
            /\ cur_t' = cur_t
            /\ rem_t' = rem_t
            /\ left' = left
            /\ right' = right
            /\ a' = call'.a
            /\ l' = call'.l
            /\ floor' = generate_floor(call'.bottom_u_x, call'.bottom_u_t, call'.a, call'.l)
            /\ Len(floor_buffer') = Len(floor')
            /\ \A i \in 1..Len(floor_buffer') :
                  floor_buffer'[i] = IF i <= Len(floor_buffer) THEN floor_buffer[i]
                                     ELSE DefaultPoint]_vars
    /\ []((Stepped /\ age = 1 /\ gen.n0 # 0) =>
            /\ cur_t = RAdd(gen.t, step_dt)
            /\ BoundaryAt(RAdd(gen.t, step_dt)))

\* the first step after a reset made when the clock had already advanced
C10_Witness ==
    /\ Stepped
    /\ age = 1
    /\ gen.n0 # 0
    /\ gen.t # R(0)
    /\ left.func = "id"

====
